---- MODULE Spec2Model ----
(***************************************************************************)
(* Model of chest_xray_classification/CheXNet.py: the CheXNet class        *)
(* (get_data_stats, get_model, train), the main script that drives it, and *)
(* the weighted binary loss that get_model compiles into the model.        *)
(*                                                                         *)
(* Python values are represented as follows.                               *)
(*   None            the empty tuple <<>>                                   *)
(*   an int field    the one-element tuple <<n>>                            *)
(*   a float quotient float(a)/b   the pair <<a, b>> (the rational a/b);    *)
(*                   equality, sum and order of such values are computed   *)
(*                   by cross-multiplication (RatEq, RatAdd, RatLe)        *)
(*   a directory     its number of files, or Missing when it does not exist*)
(***************************************************************************)
EXTENDS Integers, Sequences, FiniteSets, TLC

\* ---------------------------------------------------------------- bounds
\* MaxEpochs stands for the epochs argument of train (50 in the main script);
\* validation losses range over 0..MaxLoss; directory sizes are multiples of
\* 20 (training) and 40 (validation) files, and 80.
MaxTrainUnits == 1
MaxValUnits == 1
MaxEpochs == 2
MaxLoss == 1
MaxModels == 2
MaxW == 2
MaxBatch == 2

\* ------------------------------------------------------ program constants
batch_size == 16
val_batch_size == 64

None == <<>>
Some(v) == <<v>>
Missing == -1

\* class_map = {0:'NORMAL', 1:'PNEUMONIA'}; tuples are indexed by key + 1
class_map == {0, 1}

\* directory contents the runs start from
TrainCounts == {20 * k : k \in 0..MaxTrainUnits} \cup {80}
ValCounts == {40 * k : k \in 0..MaxValUnits}

VARIABLES fs, pc, w_class0, w_class1, train_steps, val_steps, self_model,
          model, next_id, cls_cnts, val_img_cnt, err, fit, hist, best, ckpt,
          written, batch, loss_out

vars == <<fs, pc, w_class0, w_class1, train_steps, val_steps, self_model,
          model, next_id, cls_cnts, val_img_cnt, err, fit, hist, best, ckpt,
          written, batch, loss_out>>

statVars == <<w_class0, w_class1, train_steps, val_steps>>
scanVars == <<cls_cnts, val_img_cnt>>
trainVars == <<fit, hist, best, ckpt, written>>
lossVars == <<batch, loss_out>>

\* ------------------------------------------------------------ arithmetic
RatEq(a, b) == a[1] * b[2] = b[1] * a[2]
RatAdd(a, b) == <<a[1] * b[2] + b[1] * a[2], a[2] * b[2]>>
RatLe(a, b) == a[1] * b[2] <= b[1] * a[2]
One == <<1, 1>>
Zero == <<0, 1>>

RECURSIVE SumSeq(_)
SumSeq(s) == IF s = <<>> THEN 0 ELSE s[1] + SumSeq(Tail(s))

\* float(a)/b
FloatDiv(a, b) == <<a, b>>

\* len(glob.glob(root + '/' + value + "/*")): a missing directory matches
\* nothing, so glob returns the empty list
GlobCount(root, key) ==
    IF fs[root][key + 1] = Missing THEN 0 ELSE fs[root][key + 1]

\* ------------------------------------------------------------------ Init
FsStates ==
    [train : [1..2 -> TrainCounts \cup {Missing}],
     val : [1..2 -> ValCounts \cup {Missing}]]

InitObject ==
    /\ w_class0 = None
    /\ w_class1 = None
    /\ train_steps = None
    /\ val_steps = None
    /\ self_model = None

InitRest ==
    /\ model = None
    /\ next_id = 1
    /\ cls_cnts = None
    /\ val_img_cnt = None
    /\ err = "none"
    /\ fit = None
    /\ hist = <<>>
    /\ best = None
    /\ ckpt = None
    /\ written = FALSE
    /\ loss_out = None

Init ==
    /\ fs \in FsStates
    /\ pc = "stats"
    /\ InitObject
    /\ InitRest
    /\ batch = <<>>

\* -------------------------------------------------------- get_data_stats
TrainScan == <<GlobCount("train", 0), GlobCount("train", 1)>>
ValScan == GlobCount("val", 0) + GlobCount("val", 1)

\* float(x)/0 raises ZeroDivisionError
DivRaises_never(cnts) == FALSE
DivRaises(cnts) == SumSeq(cnts) = 0

ClassWeight1_own(cnts) == FloatDiv(cnts[2], SumSeq(cnts))
ClassWeight1(cnts) == FloatDiv(cnts[1], SumSeq(cnts))
ClassWeight0(cnts) == FloatDiv(cnts[2], SumSeq(cnts))
TrainSteps(cnts) == (SumSeq(cnts) \div batch_size) + 1
ValSteps_trainBatch(cnt) == (cnt \div batch_size) + 1
ValSteps_noPlus(cnt) == cnt \div val_batch_size
ValSteps(cnt) == (cnt \div val_batch_size) + 1

DoGetDataStats(ret) ==
    /\ cls_cnts' = TrainScan
    /\ IF DivRaises(TrainScan)
          THEN /\ err' = "ZeroDivisionError"
               /\ pc' = "aborted"
               /\ UNCHANGED <<statVars, val_img_cnt>>
          ELSE /\ w_class1' = ClassWeight1(TrainScan)
               /\ w_class0' = ClassWeight0(TrainScan)
               /\ val_img_cnt' = Some(ValScan)
               /\ train_steps' = Some(TrainSteps(TrainScan))
               /\ val_steps' = Some(ValSteps(ValScan))
               /\ pc' = ret
               /\ UNCHANGED err
    /\ UNCHANGED <<fs, self_model, model, next_id, trainVars, lossVars>>

GetDataStats == pc = "stats" /\ DoGetDataStats("model")

\* ------------------------------------------------------------- get_model
\* WeightedBinaryLoss(self.w_class0, self.w_class1)
LossArgs_swapped == [w0 |-> w_class1, w1 |-> w_class0]
LossArgs == [w0 |-> w_class0, w1 |-> w_class1]

DoGetModel(ret, bind) ==
    /\ next_id <= MaxModels
    /\ self_model' = Some([id |-> next_id, loss |-> LossArgs])
    /\ next_id' = next_id + 1
    /\ model' = IF bind THEN self_model' ELSE model
    /\ pc' = ret
    /\ UNCHANGED <<fs, statVars, scanVars, err, trainVars, lossVars>>

\* model = chexNet.get_model()
GetModel == pc = "model" /\ DoGetModel("train", TRUE)

\* ----------------------------------------------------------------- train
\* the model object that the name `model` in train resolves to
FitTarget == model

\* model.fit(..., steps_per_epoch=self.train_steps, ...,
\*           validation_steps=self.val_steps)
FitArgs_swapped ==
    [model |-> FitTarget[1].id,
     steps_per_epoch |-> val_steps,
     validation_steps |-> train_steps]
FitArgs ==
    [model |-> FitTarget[1].id,
     steps_per_epoch |-> train_steps,
     validation_steps |-> val_steps]

\* a train that counts the files again before fitting
DoTrain_rescan ==
    /\ pc' = "fit"
    /\ fit' = Some(FitArgs)
    /\ train_steps' = Some(TrainSteps(TrainScan))
    /\ hist' = <<>>
    /\ best' = None
    /\ written' = FALSE
    /\ UNCHANGED <<fs, w_class0, w_class1, val_steps, scanVars, self_model,
                   model, next_id, err, ckpt, lossVars>>

DoTrain ==
    /\ IF FitTarget = None
          THEN /\ err' = "NameError"
               /\ pc' = "aborted"
               /\ UNCHANGED trainVars
          ELSE /\ fit' = Some(FitArgs)
               /\ hist' = <<>>
               /\ best' = None
               /\ written' = FALSE
               /\ pc' = "fit"
               /\ UNCHANGED <<err, ckpt>>
    /\ UNCHANGED <<fs, statVars, scanVars, self_model, model, next_id, lossVars>>

Train == pc = "train" /\ DoTrain

\* ModelCheckpoint(..., monitor='val_loss', save_best_only=True, mode='min')
\* best starts at +infinity (None here)
MonitorOp_max(current, b) == b = None \/ current > b[1]
MonitorOp(current, b) == b = None \/ current < b[1]
SaveBestOnly == TRUE

Epoch ==
    /\ pc = "fit"
    /\ Len(hist) < MaxEpochs
    /\ \E val_loss \in 0..MaxLoss :
          /\ hist' = Append(hist, val_loss)
          /\ IF SaveBestOnly
                THEN IF MonitorOp(val_loss, best)
                        THEN /\ best' = Some(val_loss)
                             /\ ckpt' = Some([model |-> fit[1].model,
                                              epoch |-> Len(hist')])
                             /\ written' = TRUE
                        ELSE /\ written' = FALSE
                             /\ UNCHANGED <<best, ckpt>>
                ELSE /\ ckpt' = Some([model |-> fit[1].model,
                                      epoch |-> Len(hist')])
                     /\ written' = TRUE
                     /\ UNCHANGED best
    /\ pc' = IF Len(hist') = MaxEpochs THEN "done" ELSE "fit"
    /\ UNCHANGED <<fs, statVars, scanVars, self_model, model, next_id, err,
                   fit, lossVars>>

\* ------------------------------------------------------------ environment
\* files are added to or removed from an existing class directory while the
\* run holds the statistics it computed
FsChange ==
    /\ pc \in {"model", "train", "fit"}
    /\ \E root \in {"train", "val"}, k \in 1..2 :
          /\ fs[root][k] # Missing
          /\ \E n \in (IF root = "train" THEN TrainCounts ELSE ValCounts) :
                /\ n # fs[root][k]
                /\ fs' = [fs EXCEPT ![root][k] = n]
    /\ UNCHANGED <<pc, statVars, scanVars, self_model, model, next_id, err,
                   trainVars, lossVars>>

Next == GetDataStats \/ GetModel \/ Train \/ Epoch \/ FsChange

Spec == Init /\ [][Next]_vars

\* ------------------------------------------------ the class used by a caller
\* A caller other than the main script: it creates the instance and invokes
\* the three methods in any order; it may or may not assign the result of
\* get_model to the module-level name `model` as the main script does.  An
\* uncaught exception ends the run.
InitAPI ==
    /\ fs \in FsStates
    /\ pc = "idle"
    /\ InitObject
    /\ InitRest
    /\ batch = <<>>

ApiGetDataStats == pc = "idle" /\ DoGetDataStats("idle")

ApiGetModel == pc = "idle" /\ \E bind \in BOOLEAN : DoGetModel("idle", bind)

ApiTrain == pc = "idle" /\ DoTrain

NextAPI == ApiGetDataStats \/ ApiGetModel \/ ApiTrain \/ Epoch \/ FsChange

SpecAPI == InitAPI /\ [][NextAPI]_vars

\* ------------------------------------------------------ weighted binary loss
\* Predictions are the quarters 0/4 .. 4/4.  NegLog[p + 1] is
\* -log(clip(p/4, eps, 1 - eps)) in units of 1/1000 with eps = 1e-7.
Preds == 0..4
NegLog == <<16118, 1386, 693, 288, 0>>

\* y_true * log(y_pred) + (1 - y_true) * log(1 - y_pred), negated
Bce(y, p) == y * NegLog[p + 1] + (1 - y) * NegLog[(4 - p) + 1]

\* weight = y_true * w1 + (1 - y_true) * w0
ElementWeight(l, y) ==
    RatAdd(<<y * l.w1[1], l.w1[2]>>, <<(1 - y) * l.w0[1], l.w0[2]>>)

ElementLoss(l, e) ==
    LET w == ElementWeight(l, e.y) IN <<w[1] * Bce(e.y, e.p), w[2]>>

RECURSIVE RatSum(_)
RatSum(s) == IF s = <<>> THEN Zero ELSE RatAdd(s[1], RatSum(Tail(s)))

Mean(s) == LET t == RatSum(s) IN <<t[1], t[2] * Len(s)>>

compute_loss(l, b) ==
    LET el == [i \in 1..Len(b) |-> ElementLoss(l, b[i])]
    IN  [elems |-> el, mean |-> Mean(el)]

\* binary cross-entropy without weights, averaged over the batch
UnweightedBce(b) == Mean([i \in 1..Len(b) |-> <<Bce(b[i].y, b[i].p), 1>>])

Weights == {<<n, 2>> : n \in 0..MaxW}
Elems == [y : {0, 1}, p : Preds]
Batches == UNION {[1..n -> Elems] : n \in 1..MaxBatch}

InitLoss ==
    /\ fs = [train |-> <<Missing, Missing>>, val |-> <<Missing, Missing>>]
    /\ pc = "model"
    /\ w_class0 \in Weights
    /\ w_class1 \in Weights
    /\ train_steps = None
    /\ val_steps = None
    /\ self_model = None
    /\ InitRest
    /\ batch \in Batches

\* the training loop calls the compiled loss on the batch
ComputeLoss ==
    /\ pc = "train"
    /\ self_model # None
    /\ loss_out' = Some(compute_loss(self_model[1].loss, batch))
    /\ UNCHANGED <<fs, pc, statVars, scanVars, self_model, model, next_id,
                   err, trainVars, batch>>

NextLoss == GetModel \/ ComputeLoss

SpecLoss == InitLoss /\ [][NextLoss]_vars

\* ================================================================ claims

\* number of files under root, summed over the class directories
FileTotal(root) ==
    LET n(k) == IF fs[root][k] = Missing THEN 0 ELSE fs[root][k]
    IN  n(1) + n(2)

AllUnset ==
    /\ w_class0 = None
    /\ w_class1 = None
    /\ train_steps = None
    /\ val_steps = None

StatsCompleted == cls_cnts # None /\ SumSeq(cls_cnts) > 0

\* C1: whenever get_data_stats has completed on counts (c0, c1) with
\* c0 + c1 > 0, w_class0 = c1/(c0+c1) and w_class1 = c0/(c0+c1), the two sum
\* to 1 and both lie in [0, 1]; counts (80, 20) give w_class1 = 0.8 and
\* w_class0 = 0.2.
C1_CrossWeights ==
    StatsCompleted =>
        LET c0 == cls_cnts[1]
            c1 == cls_cnts[2]
        IN  /\ w_class0 # None /\ w_class1 # None
            /\ RatEq(w_class0, <<c1, c0 + c1>>)
            /\ RatEq(w_class1, <<c0, c0 + c1>>)
            /\ RatEq(RatAdd(w_class0, w_class1), One)
            /\ RatLe(Zero, w_class0) /\ RatLe(w_class0, One)
            /\ RatLe(Zero, w_class1) /\ RatLe(w_class1, One)
            /\ (c0 = 80 /\ c1 = 20) =>
                  RatEq(w_class1, <<8, 10>>) /\ RatEq(w_class0, <<2, 10>>)

C1_Witness ==
    /\ cls_cnts = <<80, 20>>
    /\ w_class1 # None
    /\ RatEq(w_class1, <<8, 10>>)

\* C2: the step in which get_data_stats completes sets train_steps to
\* floor(train_total / 16) + 1 and val_steps to floor(val_total / 64) + 1,
\* the totals being the files under the training root and the validation
\* root; 100 training files give 7 steps.
C2_StepCounts ==
    [][(pc = "stats" /\ pc' = "model") =>
          /\ train_steps' = Some((FileTotal("train") \div 16) + 1)
          /\ val_steps' = Some((FileTotal("val") \div 64) + 1)
          /\ (FileTotal("train") = 100 => train_steps' = Some(7))]_vars

C2_Witness ==
    /\ cls_cnts = <<80, 20>>
    /\ train_steps = Some(7)
    /\ val_img_cnt = Some(40)
    /\ val_steps = Some(1)

\* C3 as stated: after get_data_stats has run on any dataset, an empty
\* training set included, train_steps >= 1 and val_steps >= 1.
C3_Original ==
    pc # "stats" =>
        /\ train_steps # None /\ train_steps[1] >= 1
        /\ val_steps # None /\ val_steps[1] >= 1

\* C3 amended: whenever get_data_stats completes (the training set is not
\* empty), train_steps >= 1 and val_steps >= 1, an empty validation set
\* included.
C3_StepsAtLeastOne ==
    StatsCompleted =>
        /\ train_steps # None /\ train_steps[1] >= 1
        /\ val_steps # None /\ val_steps[1] >= 1

C3_Witness ==
    /\ StatsCompleted
    /\ val_img_cnt = Some(0)
    /\ val_steps = Some(1)

\* C4: when the training class directories hold no file, get_data_stats
\* fails with ZeroDivisionError, the run is aborted with no model built and
\* no fit call, and none of the four statistics is assigned.
C4_ZeroTotalAborts ==
    (cls_cnts # None /\ SumSeq(cls_cnts) = 0) =>
        /\ pc = "aborted"
        /\ err = "ZeroDivisionError"
        /\ AllUnset
        /\ self_model = None
        /\ model = None
        /\ fit = None

C4_Witness ==
    /\ cls_cnts = <<0, 0>>
    /\ pc = "aborted"
    /\ err = "ZeroDivisionError"

\* C5: when a class directory of the class map does not exist under the
\* training or the validation root, get_data_stats fails with PathNotFound.
C5_MissingDirFails ==
    (pc # "stats" /\ \E root \in {"train", "val"}, k \in 1..2 :
                        fs[root][k] = Missing)
        => err = "PathNotFound"

\* C6: once get_data_stats has returned, no step of the run (get_model,
\* train, an epoch, a change of the data directories) changes w_class0,
\* w_class1, train_steps or val_steps.
C6_StatsImmutable ==
    [][(pc \in {"model", "train", "fit", "done"}) => UNCHANGED statVars]_vars

C6_Witness ==
    /\ pc = "done"
    /\ StatsCompleted
    /\ train_steps = Some(TrainSteps(cls_cnts))
    /\ FileTotal("train") # SumSeq(cls_cnts)

C8_LossWeights ==
    loss_out # None =>
        /\ \A i \in 1..Len(batch) :
              LET w == IF batch[i].y = 1 THEN w_class1 ELSE w_class0
              IN  RatEq(loss_out[1].elems[i],
                        <<w[1] * Bce(batch[i].y, batch[i].p), w[2]>>)
        /\ (RatEq(w_class0, One) /\ RatEq(w_class1, One)) =>
              RatEq(loss_out[1].mean, UnweightedBce(batch))

C8_Witness ==
    /\ loss_out # None
    /\ RatEq(w_class0, One) /\ RatEq(w_class1, One)
    /\ Len(batch) = 2
    /\ batch[1] = [y |-> 1, p |-> 1]
    /\ batch[2] = [y |-> 0, p |-> 2]
    /\ RatEq(loss_out[1].mean, <<1386 + 693, 2>>)

\* C9: in the main script the model is built only after get_data_stats has
\* completed and fit is called only after the model is built, so the loss
\* holds the computed (w_class0, w_class1) and fit receives the computed
\* train_steps and val_steps; before get_data_stats the four fields, and so
\* the weights get_model would read, are None.
C9_Order ==
    /\ self_model # None =>
          /\ StatsCompleted
          /\ self_model[1].loss.w0 # None
          /\ RatEq(self_model[1].loss.w0, <<cls_cnts[2], SumSeq(cls_cnts)>>)
          /\ RatEq(self_model[1].loss.w1, <<cls_cnts[1], SumSeq(cls_cnts)>>)
    /\ fit # None =>
          /\ self_model # None
          /\ fit[1].steps_per_epoch = Some(TrainSteps(cls_cnts))
          /\ fit[1].validation_steps = Some(ValSteps(val_img_cnt[1]))
    /\ pc = "stats" =>
          /\ AllUnset
          /\ LossArgs = [w0 |-> None, w1 |-> None]
          /\ self_model = None
          /\ fit = None

C9_Witness ==
    /\ pc = "done"
    /\ cls_cnts = <<80, 20>>
    /\ val_img_cnt = Some(80)
    /\ fit # None
    /\ fit[1].steps_per_epoch = Some(7)
    /\ fit[1].validation_steps = Some(2)

\* C10: on an instance on which get_data_stats and get_model have
\* completed, train runs fit on the instance's own model with the
\* instance's train_steps and val_steps.
TrainCalled == pc \in {"fit", "done"} \/ err = "NameError"

C10_OwnModel ==
    (w_class0 # None /\ self_model # None /\ TrainCalled) =>
        /\ fit # None
        /\ fit[1].model = self_model[1].id
        /\ fit[1].steps_per_epoch = train_steps
        /\ fit[1].validation_steps = val_steps

====
